---- MODULE Spec2Model ----
(***************************************************************************)
(* Model of lambda_function.py of dr2-ip-lock-checker: one run of          *)
(* lambda_handler over a mapping of Website records.  verify_responses     *)
(* probes every website in insertion order and records a verdict,          *)
(* get_websites_with_errors picks the websites to report, and the handler  *)
(* prints failure records or one success record.                           *)
(***************************************************************************)
EXTENDS Integers, Sequences, FiniteSets, TLC

VARIABLES
    websites,        \* the dict name -> Website, as a sequence of entries in insertion order
    pc,              \* position of the run inside lambda_handler
    i,               \* position of the for loop of verify_responses
    requests,        \* the calls made on the injected request callable, in order
    responses,       \* what get_response returned for each call, in order
    writes,          \* per entry: how many times its verdict fields were assigned
    error,           \* the exception that left the run, PyNone while there is none
    preservica_website,              \* <<w>> once popped (line 115), <<>> before
    websites_to_log_error_msgs_for,  \* the dict get_websites_with_errors returned
    decided,         \* number of calls of get_websites_with_errors
    stdout,          \* lines written by the builtin print at line 90
    printed          \* records handed to print_error, in order

vars == <<websites, pc, i, requests, responses, writes, error, preservica_website,
          websites_to_log_error_msgs_for, decided, stdout, printed>>

----------------------------------------------------------------------------
(* Bounds of the model *)

MaxPeers == 2

----------------------------------------------------------------------------
(* Python values: every value carries its class, an integer payload and a   *)
(* text payload (the message of an exception, the characters of a str).     *)

PyInt(n) == [type |-> "int", code |-> n, msg |-> ""]
PyFloat(n) == [type |-> "float", code |-> n, msg |-> ""]
PyStr(s) == [type |-> "str", code |-> 0, msg |-> s]
PyExc(cls, m) == [type |-> cls, code |-> 0, msg |-> m]
PyNone == [type |-> "NoneType", code |-> 0, msg |-> ""]

ExceptionClasses == {"ConnectTimeoutError", "ReadTimeoutError", "InterruptedError", "ValueError"}

Digit(d) ==
    CASE d = 0 -> "0" [] d = 1 -> "1" [] d = 2 -> "2" [] d = 3 -> "3" [] d = 4 -> "4"
      [] d = 5 -> "5" [] d = 6 -> "6" [] d = 7 -> "7" [] d = 8 -> "8" [] d = 9 -> "9"

RECURSIVE IntToStr(_)
IntToStr(n) ==
    IF n < 0 THEN "-" \o IntToStr(0 - n)
    ELSE IF n < 10 THEN Digit(n)
    ELSE IntToStr(n \div 10) \o Digit(n % 10)

\* str(v) and the {v} of an f-string
Str(v) ==
    CASE v.type = "int" -> IntToStr(v.code)
      [] v.type = "float" -> IntToStr(v.code) \o ".0"
      [] v.type = "str" -> v.msg
      [] v.type = "NoneType" -> "None"
      [] OTHER -> v.msg

----------------------------------------------------------------------------
(* Website and the dict of websites *)

Website(name, url, expected_response, received_expected_response, actual_response) ==
    [name |-> name, url |-> url, expected_response |-> expected_response,
     received_expected_response |-> received_expected_response,
     actual_response |-> actual_response]

Entry(k, w) == [key |-> k, value |-> w]

RECURSIVE SelectSeqNot(_, _)
\* dict without the entry of key k
SelectSeqNot(d, k) ==
    IF d = <<>> THEN <<>>
    ELSE IF Head(d).key = k THEN SelectSeqNot(Tail(d), k)
    ELSE <<Head(d)>> \o SelectSeqNot(Tail(d), k)

\* d[k]
Lookup(d, k) == (CHOOSE n \in 1..Len(d) : d[n].key = k)

HasKey(d, k) == \E n \in 1..Len(d) : d[n].key = k

----------------------------------------------------------------------------
(* get_response *)

\* an outcome of request(...): a response carrying a status, or a raised exception
Return(status) == [raised |-> FALSE, status |-> status, exc |-> PyNone]
Raise(e) == [raised |-> TRUE, status |-> 0, exc |-> e]

\* what the request callable can do: answer with a status, or raise
RequestResults ==
    {Return(200), Return(403), Return(500),
     Raise(PyExc("ConnectTimeoutError", "")),
     Raise(PyExc("ConnectTimeoutError", "Connection to host timed out. (connect timeout=5)")),
     Raise(PyExc("ReadTimeoutError", "Read timed out.")),
     Raise(PyExc("InterruptedError", ""))}

Request(url) == [method |-> "GET", url |-> url, timeout |-> 5, retries |-> FALSE]

get_response_reraise(result) ==
    IF result.raised
    THEN IF result.exc.type = "ConnectTimeoutError"
         THEN [raised |-> FALSE, value |-> result.exc]
         ELSE [raised |-> TRUE, value |-> result.exc]
    ELSE [raised |-> FALSE, value |-> PyInt(result.status)]

\* response.status when the request returns, the exception as a value when it
\* raises: "raised" says whether get_response itself raises
get_response(result) ==
    IF result.raised
    THEN [raised |-> FALSE, value |-> result.exc]
    ELSE [raised |-> FALSE, value |-> PyInt(result.status)]

----------------------------------------------------------------------------
(* verify_responses *)

\* which case of the match statement takes expected_response
MatchCase(expected_response) ==
    IF expected_response.type = "ConnectTimeoutError" THEN "ConnectTimeoutError"
    ELSE IF expected_response.type = "int" THEN "int"
    ELSE "_"

ReconcileTimeoutAnyFailure(website, http_status) ==
    IF http_status.type \in ExceptionClasses
    THEN [website EXCEPT !.received_expected_response = TRUE,
                         !.actual_response = PyStr(Str(website.expected_response))]
    ELSE [website EXCEPT !.received_expected_response = FALSE,
                         !.actual_response = PyStr(Str(http_status))]

ReconcileTimeoutKeepingMessage(website, http_status) ==
    IF http_status.type = "ConnectTimeoutError"
    THEN [website EXCEPT !.received_expected_response = TRUE,
                         !.actual_response = PyStr(Str(http_status))]
    ELSE [website EXCEPT !.received_expected_response = FALSE,
                         !.actual_response = PyStr(Str(http_status))]

\* lines 42-48
ReconcileTimeout(website, http_status) ==
    IF http_status.type = "ConnectTimeoutError"
    THEN [website EXCEPT !.received_expected_response = TRUE,
                         !.actual_response = PyStr(Str(website.expected_response))]
    ELSE [website EXCEPT !.received_expected_response = FALSE,
                         !.actual_response = PyStr(Str(http_status))]

ReconcileIntAlwaysTrue(website, http_status) ==
    [website EXCEPT !.received_expected_response = (http_status.type = "int"),
                    !.actual_response = PyStr(Str(http_status))]

\* lines 51-52
ReconcileInt(website, http_status) ==
    [website EXCEPT !.received_expected_response = (http_status = website.expected_response),
                    !.actual_response = PyStr(Str(http_status))]

UnrecognisedError(expected_response) ==
    PyExc("ValueError", "Unrecognised expected_response: " \o Str(expected_response))

\* the body of the match case that took expected_response, after get_response
Reconcile(case, website, http_status) ==
    IF case = "ConnectTimeoutError"
    THEN ReconcileTimeout(website, http_status)
    ELSE ReconcileInt(website, http_status)

\* one iteration of the for loop in the match case named case
VerifyIteration(case) ==
    \E result \in RequestResults :
        LET website == websites[i].value
            http_status == get_response(result)
        IN  /\ requests' = Append(requests, Request(website.url))
            /\ IF http_status.raised
               THEN /\ error' = http_status.value
                    /\ pc' = "raised"
                    /\ UNCHANGED <<websites, i, responses, writes>>
               ELSE /\ websites' = [websites EXCEPT ![i].value = Reconcile(case, website, http_status.value)]
                    /\ responses' = Append(responses, http_status.value)
                    /\ writes' = [writes EXCEPT ![i] = @ + 1]
                    /\ i' = i + 1
                    /\ UNCHANGED <<pc, error>>
            /\ UNCHANGED <<preservica_website, websites_to_log_error_msgs_for, decided,
                           stdout, printed>>

\* lines 40-48
VerifyConnectTimeoutCase ==
    /\ pc = "verify_responses"
    /\ i <= Len(websites)
    /\ MatchCase(websites[i].value.expected_response) = "ConnectTimeoutError"
    /\ VerifyIteration("ConnectTimeoutError")

VerifyIntCaseRetry ==
    /\ pc = "verify_responses"
    /\ i <= Len(websites)
    /\ MatchCase(websites[i].value.expected_response) = "int"
    /\ \E first \in RequestResults, result \in RequestResults :
        LET website == websites[i].value
            retried == get_response(first).value # website.expected_response
            http_status == get_response(IF retried THEN result ELSE first)
        IN  /\ requests' = IF retried
                           THEN requests \o <<Request(website.url), Request(website.url)>>
                           ELSE Append(requests, Request(website.url))
            /\ websites' = [websites EXCEPT ![i].value = ReconcileInt(website, http_status.value)]
            /\ responses' = Append(responses, http_status.value)
            /\ writes' = [writes EXCEPT ![i] = @ + 1]
            /\ i' = i + 1
            /\ UNCHANGED <<pc, error, preservica_website, websites_to_log_error_msgs_for,
                           decided, stdout, printed>>

\* lines 49-52
VerifyIntCase ==
    /\ pc = "verify_responses"
    /\ i <= Len(websites)
    /\ MatchCase(websites[i].value.expected_response) = "int"
    /\ VerifyIteration("int")

VerifyRaiseAndContinue ==
    /\ pc = "verify_responses"
    /\ i <= Len(websites)
    /\ MatchCase(websites[i].value.expected_response) = "_"
    /\ error' = UnrecognisedError(websites[i].value.expected_response)
    /\ i' = i + 1
    /\ UNCHANGED <<websites, pc, requests, responses, writes, preservica_website,
                   websites_to_log_error_msgs_for, decided, stdout, printed>>

\* lines 53-54: the ValueError leaves verify_responses and lambda_handler
VerifyRaise ==
    /\ pc = "verify_responses"
    /\ i <= Len(websites)
    /\ MatchCase(websites[i].value.expected_response) = "_"
    /\ error' = UnrecognisedError(websites[i].value.expected_response)
    /\ pc' = "raised"
    /\ UNCHANGED <<websites, i, requests, responses, writes, preservica_website,
                   websites_to_log_error_msgs_for, decided, stdout, printed>>

\* line 56 and the assignment of line 114
VerifyReturn ==
    /\ pc = "verify_responses"
    /\ i > Len(websites)
    /\ pc' = "get_websites_with_errors"
    /\ UNCHANGED <<websites, i, requests, responses, writes, error, preservica_website,
                   websites_to_log_error_msgs_for, decided, stdout, printed>>

----------------------------------------------------------------------------
(* get_websites_with_errors *)

\* lines 85-87: the websites of the dict that did not receive their expected response
any_other_website_received_unexpected_response(rest_of_the_tested_websites) ==
    {rest_of_the_tested_websites[n].value : n \in
        {m \in 1..Len(rest_of_the_tested_websites) :
            ~rest_of_the_tested_websites[m].value.received_expected_response}}

get_websites_with_errors_and_failing_peers(preservica, rest_of_the_tested_websites) ==
    IF preservica.received_expected_response
    THEN IF any_other_website_received_unexpected_response(rest_of_the_tested_websites) # {}
         THEN rest_of_the_tested_websites
         ELSE <<>>
    ELSE <<Entry(preservica.name, preservica)>>
            \o SelectSeq(rest_of_the_tested_websites,
                         LAMBDA e : ~e.value.received_expected_response)

get_websites_with_errors_always_rest(preservica, rest_of_the_tested_websites) ==
    IF preservica.received_expected_response
    THEN rest_of_the_tested_websites
    ELSE <<Entry(preservica.name, preservica)>>

\* lines 84-94
get_websites_with_errors(preservica, rest_of_the_tested_websites) ==
    IF preservica.received_expected_response
    THEN IF any_other_website_received_unexpected_response(rest_of_the_tested_websites) # {}
         THEN rest_of_the_tested_websites
         ELSE <<>>
    ELSE <<Entry(preservica.name, preservica)>>

\* line 90: the note written by the builtin print
DiagnosticNote(preservica, rest_of_the_tested_websites) ==
    IF /\ preservica.received_expected_response
       /\ any_other_website_received_unexpected_response(rest_of_the_tested_websites) # {}
    THEN <<"Preservica website timed out as expected but other test websites did not receive expected response.">>
    ELSE <<>>

----------------------------------------------------------------------------
(* print_error_message, print_success_message *)

error_message_in_json(website_name, website) ==
    [Status |-> "Failure",
     Website |-> website_name,
     Message |-> "This address is unexpectedly available",
     Expected_Response |-> Str(website.expected_response),
     Actual_Response |-> website.actual_response]

print_error_message_first_only(ws) ==
    <<error_message_in_json(ws[1].key, ws[1].value)>>

\* lines 59-69: one record per item of the dict, in order
print_error_message(ws) ==
    [n \in 1..Len(ws) |-> error_message_in_json(ws[n].key, ws[n].value)]

\* lines 72-79
print_success_message(preservica) ==
    <<[Status |-> "Success",
       Website |-> preservica.name,
       Message |-> preservica.name \o " returned an expected response: "
                      \o Str(preservica.expected_response)]>>

----------------------------------------------------------------------------
(* lambda_handler *)

preservica_website_name == "Preservica"

PRESERVICA_URL == "https://preservica.example"

\* the keys of the dict after Preservica, in insertion order
PeerNames == <<"www.amazon.co.uk", "www.nationalarchives.gov.uk", "website4", "website5">>

\* expectations of the entry of Preservica: the handler's, the tests' 403 and 42.0
PreservicaExpectations ==
    {PyExc("ConnectTimeoutError", ""), PyInt(403), PyFloat(42)}

\* expectations of the other entries: the handler's 200, a timeout, and the unrecognised 42.0
PeerExpectations == {PyInt(200), PyExc("ConnectTimeoutError", "expected response"), PyFloat(42)}

\* lines 100-112: the dict the run starts from
InitialWebsites(n, preservica_expected, peer_expected) ==
    [k \in 1..(n + 1) |->
        IF k = 1
        THEN Entry(preservica_website_name,
                   Website(preservica_website_name, PRESERVICA_URL, preservica_expected,
                           FALSE, PyNone))
        ELSE Entry(PeerNames[k - 1],
                   Website(PeerNames[k - 1], "https://" \o PeerNames[k - 1],
                           peer_expected[k - 1], FALSE, PyNone))]

Init ==
    /\ \E n \in 0..MaxPeers :
         \E preservica_expected \in PreservicaExpectations :
           \E peer_expected \in [1..n -> PeerExpectations] :
             /\ websites = InitialWebsites(n, preservica_expected, peer_expected)
             /\ writes = [k \in 1..(n + 1) |-> 0]
    /\ pc = "verify_responses"
    /\ i = 1
    /\ requests = <<>>
    /\ responses = <<>>
    /\ error = PyNone
    /\ preservica_website = <<>>
    /\ websites_to_log_error_msgs_for = <<>>
    /\ decided = 0
    /\ stdout = <<>>
    /\ printed = <<>>

\* lines 115-117: pop Preservica and decide what to report
GetWebsitesWithErrors ==
    /\ pc = "get_websites_with_errors"
    /\ HasKey(websites, preservica_website_name)
    /\ LET preservica == websites[Lookup(websites, preservica_website_name)].value
           rest_of_the_tested_websites == SelectSeqNot(websites, preservica_website_name)
       IN  /\ preservica_website' = <<preservica>>
           /\ websites' = rest_of_the_tested_websites
           /\ websites_to_log_error_msgs_for' =
                  get_websites_with_errors(preservica, rest_of_the_tested_websites)
           /\ stdout' = stdout \o DiagnosticNote(preservica, rest_of_the_tested_websites)
    /\ decided' = decided + 1
    /\ pc' = "print"
    /\ UNCHANGED <<i, requests, responses, writes, error, printed>>

\* lines 119-120
PrintErrorMessage ==
    /\ pc = "print"
    /\ websites_to_log_error_msgs_for # <<>>
    /\ printed' = printed \o print_error_message(websites_to_log_error_msgs_for)
    /\ pc' = "done"
    /\ UNCHANGED <<websites, i, requests, responses, writes, error, preservica_website,
                   websites_to_log_error_msgs_for, decided, stdout>>

\* lines 121-122
PrintSuccessMessage ==
    /\ pc = "print"
    /\ websites_to_log_error_msgs_for = <<>>
    /\ printed' = printed \o print_success_message(preservica_website[1])
    /\ pc' = "done"
    /\ UNCHANGED <<websites, i, requests, responses, writes, error, preservica_website,
                   websites_to_log_error_msgs_for, decided, stdout>>

Next ==
    \/ VerifyConnectTimeoutCase
    \/ VerifyIntCase
    \/ VerifyRaise
    \/ VerifyReturn
    \/ GetWebsitesWithErrors
    \/ PrintErrorMessage
    \/ PrintSuccessMessage

Spec == Init /\ [][Next]_vars

\* the run is a single thread that is never held back: every enabled step is taken
FairSpec == Spec /\ WF_vars(Next)

----------------------------------------------------------------------------
(* Properties of get_websites_with_errors *)

\* the decision has been taken: Preservica is popped, websites holds the other entries
Decided == pc \in {"print", "done"}

FailingPeers == SelectSeq(websites, LAMBDA e : ~e.value.received_expected_response)

PassingPeers == SelectSeq(websites, LAMBDA e : e.value.received_expected_response)

\* C1: when Preservica received its expected response and at least one other website
\* did not, the returned dict holds exactly the websites that did not receive their
\* expected response.
C1_ReturnsExactlyFailingPeers ==
    (Decided /\ preservica_website[1].received_expected_response /\ FailingPeers # <<>>)
        => websites_to_log_error_msgs_for = FailingPeers

\* C2: when Preservica did not receive its expected response, the returned dict is
\* the single entry Preservica, whatever the other websites received.
C2_PreservicaAloneWhenItFails ==
    (Decided /\ ~preservica_website[1].received_expected_response)
        => websites_to_log_error_msgs_for =
              <<[key |-> "Preservica", value |-> preservica_website[1]]>>

C2_Witness ==
    /\ Decided
    /\ ~preservica_website[1].received_expected_response
    /\ FailingPeers # <<>>
    /\ PassingPeers # <<>>
    /\ Len(websites_to_log_error_msgs_for) = 1

\* C3: when Preservica and every other website received their expected responses
\* (also with no other website at all), the returned dict is empty, for a timeout
\* expectation as for a status expectation.
C3_EmptyWhenAllMatch ==
    (Decided /\ preservica_website[1].received_expected_response /\ FailingPeers = <<>>)
        => websites_to_log_error_msgs_for = <<>>

C3_Witness ==
    /\ Decided
    /\ preservica_website[1].expected_response = PyInt(403)
    /\ preservica_website[1].received_expected_response
    /\ Len(websites) = 2
    /\ FailingPeers = <<>>
    /\ websites_to_log_error_msgs_for = <<>>

----------------------------------------------------------------------------
(* Properties of verify_responses *)

\* entry k has been through its iteration of the loop and the dict is still whole
Reconciled(k) ==
    /\ pc \in {"verify_responses", "raised", "get_websites_with_errors"}
    /\ k \in 1..(i - 1)

\* the decimal digits of the statuses the request callable answers with
StatusText(n) == CASE n = 200 -> "200" [] n = 403 -> "403" [] n = 500 -> "500"

IsFailure(v) == v.type \in {"ConnectTimeoutError", "ReadTimeoutError", "InterruptedError"}

\* C4 as stated: for a website expecting ConnectTimeoutError, received_expected_response
\* is true iff the probe failed for any reason, and it is false with actual_response
\* the decimal string of the status when the probe returned a status.
C4_TrueOnAnyFailure ==
    \A k \in 1..Len(websites) :
        (Reconciled(k) /\ websites[k].value.expected_response.type = "ConnectTimeoutError")
            => /\ websites[k].value.received_expected_response = IsFailure(responses[k])
               /\ responses[k].type = "int"
                    => /\ ~websites[k].value.received_expected_response
                       /\ websites[k].value.actual_response
                             = PyStr(StatusText(responses[k].code))

\* C4 amended: for a website expecting ConnectTimeoutError, received_expected_response
\* is true iff the probe failed with an error of class ConnectTimeoutError itself (any
\* other transport error gives false), and it is false with actual_response the
\* decimal string of the status when the probe returned a status.
C4_TrueOnConnectTimeoutOnly ==
    \A k \in 1..Len(websites) :
        (Reconciled(k) /\ websites[k].value.expected_response.type = "ConnectTimeoutError")
            => /\ websites[k].value.received_expected_response
                    = (responses[k].type = "ConnectTimeoutError")
               /\ responses[k].type = "int"
                    => /\ ~websites[k].value.received_expected_response
                       /\ websites[k].value.actual_response
                             = PyStr(StatusText(responses[k].code))

C4_Witness ==
    /\ Reconciled(1)
    /\ websites[1].value.expected_response.type = "ConnectTimeoutError"
    /\ responses[1].type = "ReadTimeoutError"
    /\ ~websites[1].value.received_expected_response
    /\ websites[1].value.actual_response = PyStr("Read timed out.")

\* C5: for a website expecting status c, received_expected_response is (observed
\* status = c) and actual_response the decimal string of the observed status; after a
\* transport failure received_expected_response is false and actual_response is the
\* string of the error.
C5_StatusExpectation ==
    \A k \in 1..Len(websites) :
        (Reconciled(k) /\ websites[k].value.expected_response.type = "int")
            => IF responses[k].type = "int"
               THEN /\ websites[k].value.received_expected_response
                         = (responses[k].code = websites[k].value.expected_response.code)
                    /\ websites[k].value.actual_response
                         = PyStr(StatusText(responses[k].code))
               ELSE /\ IsFailure(responses[k])
                    /\ ~websites[k].value.received_expected_response
                    /\ websites[k].value.actual_response = PyStr(responses[k].msg)

C5_Witness ==
    /\ Reconciled(3)
    /\ websites[1].value.expected_response = PyInt(403)
    /\ responses[1] = PyInt(403)
    /\ websites[1].value.received_expected_response
    /\ websites[2].value.expected_response = PyInt(200)
    /\ responses[2] = PyInt(500)
    /\ websites[2].value.actual_response = PyStr("500")
    /\ websites[3].value.expected_response = PyInt(200)
    /\ responses[3].type = "ConnectTimeoutError"
    /\ ~websites[3].value.received_expected_response

\* C6: when verify_responses raises for an unrecognised expectation, no website of
\* the dict has had received_expected_response or actual_response changed.
C6_NoPartialResults ==
    (pc = "raised" /\ error.type = "ValueError")
        => \A k \in 1..Len(websites) :
              /\ websites[k].value.received_expected_response = FALSE
              /\ websites[k].value.actual_response = PyNone

----------------------------------------------------------------------------
(* Properties of the run *)

\* every expectation of the dict the run started from is a status or a timeout
AllRecognised ==
    /\ \A k \in 1..Len(websites) :
          MatchCase(websites[k].value.expected_response) # "_"
    /\ preservica_website # <<>>
          => MatchCase(preservica_website[1].expected_response) # "_"

\* C7: once verify_responses has raised for an unrecognised expectation the run is
\* over: nothing is handed to the sink, neither a failure nor a success record, and
\* get_websites_with_errors is not called.
C7_NothingEmittedAfterRaise ==
    error # PyNone
        => /\ pc = "raised"
           /\ error.type = "ValueError"
           /\ printed = <<>>
           /\ decided = 0
           /\ preservica_website = <<>>
           /\ websites_to_log_error_msgs_for = <<>>

C7_Witness ==
    /\ pc = "raised"
    /\ error = PyExc("ValueError", "Unrecognised expected_response: 42.0")
    /\ i = 2
    /\ Len(requests) = 1
    /\ printed = <<>>

\* C8: get_response never raises: a transport failure comes back as a value, the
\* only error that ends verify_responses is the unrecognised expectation of the
\* entry the loop stands on, and every entry the loop has passed was probed and
\* given its verdict, whatever the probes before it returned.
C8_TransportFailureAbsorbed ==
    /\ error # PyNone
          => /\ error.type = "ValueError"
             /\ MatchCase(websites[i].value.expected_response) = "_"
    /\ Len(responses) = Len(requests)
    /\ \A k \in 1..Len(websites) :
          Reconciled(k) => /\ writes[k] = 1
                           /\ websites[k].value.actual_response.type = "str"
    /\ (AllRecognised /\ pc \notin {"verify_responses", "raised"})
          => Len(responses) = Len(writes)

C8_Witness ==
    /\ pc = "get_websites_with_errors"
    /\ Len(websites) = 3
    /\ responses[1].type = "InterruptedError"
    /\ responses[2].type = "ReadTimeoutError"
    /\ responses[3] = PyInt(200)
    /\ websites[3].value.received_expected_response
    /\ writes[3] = 1

\* C9: a run that completes verify_responses prints either exactly one success
\* record naming Preservica (when the returned dict is empty) or exactly one failure
\* record per returned entry, in order (when it is not), never records of both
\* kinds; nothing is printed before the decision.
C9_SuccessXorFailureRecords ==
    /\ pc # "done" => printed = <<>>
    /\ pc = "done"
          => IF websites_to_log_error_msgs_for = <<>>
             THEN /\ Len(printed) = 1
                  /\ printed[1].Status = "Success"
                  /\ printed[1].Website = preservica_website[1].name
             ELSE /\ Len(printed) = Len(websites_to_log_error_msgs_for)
                  /\ \A n \in 1..Len(printed) :
                        /\ printed[n].Status = "Failure"
                        /\ printed[n].Website = websites_to_log_error_msgs_for[n].key

C9_Witness ==
    /\ pc = "done"
    /\ Len(websites_to_log_error_msgs_for) = 2
    /\ Len(printed) = 2
    /\ printed[1].Website = "www.amazon.co.uk"
    /\ printed[2].Website = "www.nationalarchives.gov.uk"

C10_OneRequestPerWebsiteInOrder ==
    /\ pc \in {"verify_responses", "get_websites_with_errors"}
          => /\ Len(requests) = i - 1
             /\ \A k \in 1..Len(websites) :
                   /\ k < i => /\ requests[k].method = "GET"
                                /\ requests[k].url = websites[k].value.url
                                /\ writes[k] = 1
                   /\ k >= i => /\ writes[k] = 0
                                 /\ websites[k].value.actual_response = PyNone
    /\ pc \in {"get_websites_with_errors", "print", "done"}
          => /\ i = Len(writes) + 1
             /\ Len(requests) = Len(writes)
             /\ \A k \in 1..Len(writes) : writes[k] = 1

\* C10: with recognised expectations only, verify_responses issues exactly one GET
\* per website, one after the other in insertion order of the dict, writes each
\* verdict exactly once, and returns after the last website.
C10_SequentialSingleProbe ==
    /\ [](AllRecognised => C10_OneRequestPerWebsiteInOrder)
    /\ (AllRecognised /\ pc = "verify_responses")
          ~> (pc = "get_websites_with_errors" /\ Len(requests) = Len(websites))

C10_Witness ==
    /\ AllRecognised
    /\ pc = "get_websites_with_errors"
    /\ Len(websites) = 3
    /\ responses[1].type = "ReadTimeoutError"
    /\ responses[2] = PyInt(500)
    /\ Len(requests) = 3
    /\ requests[3].url = "https://www.nationalarchives.gov.uk"

----------------------------------------------------------------------------
(* get_websites_with_errors called on its own, as the tests call it: the dict is *)
(* reconciled by verify_responses, Preservica is popped, and the function is     *)
(* then called on the same two arguments up to MaxCalls times.                   *)

MaxCalls == 2

\* line 115 (and the pop of the tests): take Preservica out of the dict
PopPreservica ==
    /\ pc = "get_websites_with_errors"
    /\ HasKey(websites, preservica_website_name)
    /\ preservica_website' = <<websites[Lookup(websites, preservica_website_name)].value>>
    /\ websites' = SelectSeqNot(websites, preservica_website_name)
    /\ pc' = "popped"
    /\ UNCHANGED <<i, requests, responses, writes, error, websites_to_log_error_msgs_for,
                   decided, stdout, printed>>

CallGetWebsitesWithErrorsDroppingPassing ==
    /\ pc = "popped"
    /\ decided < MaxCalls
    /\ websites_to_log_error_msgs_for' =
           get_websites_with_errors(preservica_website[1], websites)
    /\ websites' =
           IF preservica_website[1].received_expected_response
           THEN SelectSeq(websites, LAMBDA e : ~e.value.received_expected_response)
           ELSE websites
    /\ stdout' = stdout \o DiagnosticNote(preservica_website[1], websites)
    /\ decided' = decided + 1
    /\ UNCHANGED <<pc, i, requests, responses, writes, error, preservica_website, printed>>

\* lines 82-94: one call; the function assigns to neither argument
CallGetWebsitesWithErrors ==
    /\ pc = "popped"
    /\ decided < MaxCalls
    /\ websites_to_log_error_msgs_for' =
           get_websites_with_errors(preservica_website[1], websites)
    /\ stdout' = stdout \o DiagnosticNote(preservica_website[1], websites)
    /\ decided' = decided + 1
    /\ UNCHANGED <<websites, pc, i, requests, responses, writes, error,
                   preservica_website, printed>>

DecideNext ==
    \/ VerifyConnectTimeoutCase
    \/ VerifyIntCase
    \/ VerifyRaise
    \/ VerifyReturn
    \/ PopPreservica
    \/ CallGetWebsitesWithErrors

DecideSpec == Init /\ [][DecideNext]_vars

\* C11: a call of get_websites_with_errors changes neither Preservica nor the dict
\* of the other websites (no name, url, expectation, verdict or actual_response, and
\* no membership), and a further call on the same arguments returns the dict the
\* call before it returned.
C11_DecisionIdempotent ==
    [][(pc = "popped" /\ decided' = decided + 1)
          => /\ websites' = websites
             /\ preservica_website' = preservica_website
             /\ decided >= 1
                  => websites_to_log_error_msgs_for' = websites_to_log_error_msgs_for]_vars

C11_Witness ==
    /\ pc = "popped"
    /\ decided = 2
    /\ preservica_website[1].received_expected_response
    /\ Len(websites) = 2
    /\ ~websites[1].value.received_expected_response
    /\ websites[2].value.received_expected_response
    /\ websites_to_log_error_msgs_for = websites
    /\ Len(stdout) = 2

----------------------------------------------------------------------------
(* The message of an expected timeout does not reach the results *)

\* the observed value with the message of an expected ConnectTimeoutError replaced
\* by one fixed text: what two runs that differ only in that message have in common
MaskedResponse(expected_response, http_status) ==
    IF /\ expected_response.type = "ConnectTimeoutError"
       /\ http_status.type = "ConnectTimeoutError"
    THEN PyExc("ConnectTimeoutError", "timed out")
    ELSE http_status

\* the website as the run with the fixed message leaves it
ReconciledFromMasked(website, http_status) ==
    Reconcile(MatchCase(website.expected_response), website,
              MaskedResponse(website.expected_response, http_status))

\* the records the run with the fixed message prints: Preservica was the first
\* entry, the entries of websites followed it
PrintedFromMasked ==
    LET preservica == ReconciledFromMasked(preservica_website[1], responses[1])
        rest == [k \in 1..Len(websites) |->
                    Entry(websites[k].key,
                          ReconciledFromMasked(websites[k].value, responses[k + 1]))]
        reported == get_websites_with_errors(preservica, rest)
    IN  IF reported = <<>>
        THEN print_success_message(preservica)
        ELSE print_error_message(reported)

\* C12: for a website expecting ConnectTimeoutError whose probe failed with a
\* ConnectTimeoutError, actual_response is the string of its own expected_response;
\* every website and every printed record is the one of the run in which the observed
\* timeouts carry one fixed message, so runs that differ only in that message end
\* with the same actual_response values and the same records.
C12_TimeoutMessageMasked ==
    /\ \A k \in 1..Len(websites) :
          Reconciled(k)
            => /\ (/\ websites[k].value.expected_response.type = "ConnectTimeoutError"
                    /\ responses[k].type = "ConnectTimeoutError")
                    => /\ websites[k].value.received_expected_response
                       /\ websites[k].value.actual_response
                             = PyStr(websites[k].value.expected_response.msg)
               /\ websites[k].value = ReconciledFromMasked(websites[k].value, responses[k])
    /\ pc = "done" => printed = PrintedFromMasked

C12_Witness ==
    /\ pc = "done"
    /\ Len(websites) = 2
    /\ responses[1] = PyExc("ConnectTimeoutError", "")
    /\ websites[1].value.expected_response = PyExc("ConnectTimeoutError", "expected response")
    /\ responses[2] = PyExc("ConnectTimeoutError",
                            "Connection to host timed out. (connect timeout=5)")
    /\ responses[3] = PyInt(500)
    /\ Len(printed) = 2
    /\ printed[1].Website = "www.amazon.co.uk"
    /\ printed[1].Expected_Response = "expected response"
    /\ printed[1].Actual_Response = PyStr("expected response")

====
